---- MODULE Spec2Model ----
(***************************************************************************)
(* EPROM programmer firmware src/2708prg.X/main.c: the receive queue, the  *)
(* receive interrupt handler, the command dispatcher and the operations    *)
(* READ, WRITE, BLANK-CHECK, IDENTIFY, INIT and SET-TYPE.  The file holds  *)
(* two programs: the 2708 build (lines 1-554) and the multi-device build   *)
(* for the 2716, 2732 and 2532 (lines 605-1280); the variable 'build' says *)
(* which one runs.  Their queue code is the same, except that the second   *)
(* has no bytes_pushed and bytes_popped counters.                          *)
(*                                                                         *)
(* Two execution contexts share head, tail, queue, cmd_active and the CTS  *)
(* output: isr(), which runs to completion (the hardware clears GIE on     *)
(* entry), and the foreground main loop, which is modelled statement by    *)
(* statement, so the handler can run between any two foreground statements *)
(* executed with GIE = 1, those of clear() included.  write_port() is      *)
(* three steps: the data latch, the program pulse on, the pulse off.       *)
(*                                                                         *)
(* Characters are their ASCII codes; the text sent with uart_puts() and    *)
(* uart_putc() is the sequence 'out' of such codes.  The queue size, the   *)
(* watermarks, the device sizes and the line length of a dump are scaled   *)
(* down (the firmware uses 1024, 1024-32, 32, 1024/2048/4096 and 16); the  *)
(* order HIWATER > LOWATER and HIWATER < QUEUESIZE-3 (the output can be    *)
(* asserted before the tail reaches the end of the buffer while a command  *)
(* executes) is kept.                                                      *)
(*                                                                         *)
(* The device in the socket is not part of the source.  It is modelled as  *)
(* a store: a program pulse puts the byte on the data bus into the cell at *)
(* the latched address; with bit 0 of LATC low the device drives the cell  *)
(* at the latched address, otherwise port D reads 0x00 or 0xff.            *)
(*                                                                         *)
(* Not part of the state: the red LED (RC5, low again at the end of every  *)
(* turn of pop()'s wait loop) and the delays.  memset() is one step.  The  *)
(* cursors are 16 bit values written by an 8 bit core; a handler running   *)
(* between the two byte writes of 'head = 0' or 'tail = ENDQUEUE' is       *)
(* covered only as a handler running before or after the statement.        *)
(* do_write() of the 2708 build ends with sprintf(ads, "OK") into          *)
(* char ads[2], which writes one byte past the array; what that byte       *)
(* overwrites is decided by the linker, and the model takes it to be       *)
(* nothing the program uses again.                                         *)
(***************************************************************************)
EXTENDS Integers, Sequences, FiniteSets, TLC

\* ------------------------------------------------------------------ bounds
\* QUEUESIZE is 1024 in the firmware (main.c:34).
QUEUESIZE == 8
\* HIWATER is QUEUESIZE-32 in the firmware (main.c:36): WATERGAP stands for 32.
WATERGAP == 4
\* LOWATER is 32 in the firmware (main.c:37).
LOWATER == 2
\* Number of addresses do_write programs: 1024 in the firmware (main.c:464).
DEVSIZE == 4
\* Bytes stored by push() in one run of the model (bounds bytes_pushed).
MaxPushed == 11
\* Dropped pushes in one run of the model.
MaxDiscards == 1
\* Sweep length of a 2716 in the multi-device build: 2048 in the firmware
\* (main.c:864); the 2732 and the 2532 have twice that (main.c:868, 872).
SIZE_2716 == 2
\* Bytes on one line of do_read()'s dump: 16 in the firmware (main.c:414).
LINELEN == 2
\* do_blank() of the 2708 build sweeps 1048 addresses (main.c:345), which is
\* 24 more than the 1024 of do_read(): OVERSWEEP stands for 24.
OVERSWEEP == 1
\* Commands the host sends in one run of SpecDev.
MaxCmds == 2

\* --------------------------------------------------------------- constants
NUL == 0
DOLLAR == 36
CMD_READ == 49
CMD_WRTE == 50
CMD_CHEK == 51
CMD_IDEN == 52
CMD_INIT == 85
INPUT == 255
OUTPUT == 0
\* Multi-device build.
CMD_TYPE == 53
DEV_2716 == 0
DEV_2732 == 1
DEV_2532 == 2
\* The erased value do_blank() compares with.
ERASED == 255

ENDQUEUE == QUEUESIZE - 1
HIWATER == QUEUESIZE - WATERGAP

\* Bytes the sender puts on the line: the sentinel, and '2', which is the
\* WRITE command code, a hex digit of a payload and, at the head of the
\* queue, a byte that is no sentinel.  '$' after the sentinel is a command
\* code main() does not know.
Chars == {DOLLAR, CMD_WRTE}

VARIABLES
  queue,          \* char queue[QUEUESIZE]
  head,           \* int16_t head
  tail,           \* int16_t tail
  cmd_active,     \* bool cmd_active
  bytes_pushed,   \* int16_t bytes_pushed
  bytes_popped,   \* int16_t bytes_popped
  cts,            \* PORTA bit 4 (RA4): TRUE = 'hold', FALSE = 'allow'
  gie,            \* INTCONbits.GIE / PIE1bits.RCIE
  rc3, rc4,       \* green and orange LED
  latc,           \* LATC bits 0..2: CE_, WE_, PRG_
  trisd,          \* direction of port D
  latd,           \* LATD, the data bus latch
  abus,           \* address latched on LATB (A0-7) and LATA (A8-9)
  pc,             \* foreground position
  ret,            \* where the running pop() returns to
  c,              \* value returned by the last pop()
  cmd,            \* main's local cmd
  hi,             \* do_write's local hi
  addr,           \* loop counter of the running operation
  stored,         \* history: bytes push() stored since the last reset
  taken,          \* history: bytes pop() returned since the last reset
  discards,       \* history: number of pushes that took the queue-full branch
  detected,       \* history: how cmd_active was last set: by an invocation
                  \* whose push "stored" or "dropped" its byte, or "no"
  build,          \* which of the two programs runs: "2708" (main.c:1-554)
                  \* or "multi" (main.c:605-1280)
  devType,        \* int8_t devType (multi-device build)
  bytes,          \* int16_t bytes (multi-device build)
  re,             \* PORTE bits RE0, RE1 (multi-device build)
  mem,            \* contents of the EPROM in the socket
  out,            \* characters sent on the serial link since the running
                  \* command was taken up
  visited,        \* history: addresses sampled or programmed by the running
                  \* command, in order
  col,            \* do_read's local col
  data,           \* the byte read_port() returned
  bok,            \* do_blank's local ok
  hsent,          \* host: the bytes of the command it is sending
  ncmd,           \* host: number of commands it has started
  hprev           \* host: the bytes of the command it sent before

vars == <<queue, head, tail, cmd_active, bytes_pushed, bytes_popped, cts, gie,
          rc3, rc4, latc, trisd, latd, abus, pc, ret, c, cmd, hi, addr,
          stored, taken, discards, detected,
          build, devType, bytes, re, mem, out, visited, col, data, bok,
          hsent, ncmd, hprev>>

cfgvars == <<build, devType, bytes, re>>
oplocals == <<col, data, bok>>
hostvars == <<hsent, ncmd, hprev>>
qvars == <<queue, head, tail, cmd_active, bytes_pushed, bytes_popped>>
hwvars == <<latc, trisd, latd, abus>>
locals == <<ret, c, cmd, hi, addr>>

\* ------------------------------------------------------------ queue helpers
\* int16_t arithmetic: ++ on a 16 bit signed counter.
Int16Inc(x) == IF x = 32767 THEN -32768 ELSE x + 1

addone(i) == IF i = ENDQUEUE THEN 0 ELSE i + 1

\* size(): the value s it computes and returns.
size(h, t) == addone(t) - h

\* size(): the CTS output after it, given the output before it.
sizeCTS(s, old) == IF s < LOWATER THEN FALSE ELSE IF s > HIWATER THEN TRUE ELSE old

\* An empty() that never reports a byte: pop() waits for ever.
emptyAlways(h, t) == TRUE

\* empty(): the queue holds no byte.
empty(h, t) == addone(t) = h

\* push(): the CTS output it sets from the occupancy before the store.
pushCTS(h, t) == (addone(t) - h) > HIWATER

\* Faulty variant of pushFull: the queue-full test left out.
pushFullNever(h, t) == FALSE

\* Faulty variant of pushFull: the test made one slot too early.
pushFullEarly(h, t) == addone(addone(addone(t))) = h

\* push(): the queue-full test.
pushFull(h, t) == addone(addone(t)) = h

\* Faulty variant of pushTail: the tail advances on a full queue too.
pushTailUnchecked(h, t) == addone(t)

\* push(): the tail after it.
pushTail(h, t) == IF pushFull(h, t) THEN t ELSE addone(t)

\* Faulty variant of pushQueue: the byte is stored before the tail has
\* advanced.
pushQueueAtOldTail(q, h, t, ch) ==
  IF pushFull(h, t) THEN q ELSE [q EXCEPT ![t] = ch]

\* push(): the storage after it.
pushQueue(q, h, t, ch) ==
  IF pushFull(h, t) THEN q ELSE [q EXCEPT ![addone(t)] = ch]

first(q, h) == q[h]

\* Faulty variant of isCommand: the test of the number of buffered bytes
\* left out.
isCommandNoCount(q, h, n) == first(q, h) = DOLLAR

\* isr(): the command detection rule, evaluated after push() and size().
isCommand(q, h, n) == first(q, h) = DOLLAR /\ n > 1

\* A handler that assigns the result of the test to the flag, so that a
\* byte received while no token is at the head clears it.
isrFlagAssigned(old, q, h, n) == isCommand(q, h, n)

\* isr(): cmd_active after 'if ((first() == '$') && n > 1) cmd_active = true;'.
isrFlag(old, q, h, n) == IF isCommand(q, h, n) THEN TRUE ELSE old

\* A conversion without the test for upper-case letters.
charToHexDigitNoUpper(ch) ==
  IF ch >= 97 THEN (ch - 97 + 10) % 256
  ELSE (ch - 48) % 256

\* uint8_t charToHexDigit(char c)
charToHexDigit(ch) ==
  IF ch >= 97 THEN (ch - 97 + 10) % 256          \* 'a'
  ELSE IF ch >= 65 THEN (ch - 65 + 10) % 256     \* 'A'
  ELSE (ch - 48) % 256                            \* '0'

\* ----------------------------------------------------------- device helpers
\* setup_address(): the number of addresses the latched bits distinguish.
\* The 2708 build latches ten bits (LATA = hi & 0x03), as many as the device
\* has addresses; the multi-device build latches twelve (hi & 0x0f), as many
\* as a 2732 has.
AddrSpace(b) == IF b = "2708" THEN DEVSIZE ELSE 2 * SIZE_2716

\* setup_address(addr): the address on LATB and LATA.
setup_address(b, a) == a % AddrSpace(b)

\* The loop bound of do_read() and do_write(): 1024, or bytes.
sweepLen(b, n) == IF b = "2708" THEN DEVSIZE ELSE n

\* ------------------------------------------------------------------- Init
\* The state when main() has enabled the receive interrupt.
Init ==
  /\ queue = [i \in 0..(QUEUESIZE - 1) |-> NUL]
  /\ head = 0
  /\ tail = ENDQUEUE
  /\ cmd_active = FALSE
  /\ bytes_pushed = 0
  /\ bytes_popped = 0
  /\ cts = FALSE
  /\ gie = TRUE
  /\ rc3 = 0 /\ rc4 = 0
  /\ latc = <<1, 1, 1>>
  /\ trisd = INPUT
  /\ latd = 0
  /\ abus = 0
  /\ pc = "main"
  /\ ret = "main"
  /\ c = NUL
  /\ cmd = NUL
  /\ hi = 0
  /\ addr = 0
  /\ stored = <<>>
  /\ taken = <<>>
  /\ discards = 0
  /\ detected = "no"
  /\ build = "2708"
  /\ devType = 0 /\ bytes = 0 /\ re = <<0, 0>>
  /\ mem = [a \in 0..(AddrSpace("2708") - 1) |-> ERASED]
  /\ out = <<>>
  /\ visited = <<>>
  /\ col = 0 /\ data = 0 /\ bok = TRUE
  /\ hsent = <<>> /\ ncmd = 0 /\ hprev = <<>>

\* ---------------------------------------------------------------- handler
\* isr(): one invocation.  ok is uart_getc()'s result, ch the byte it read.
isr(ok, ch) ==
  /\ gie
  /\ IF ok
     THEN LET full == pushFull(head, tail)
              t1 == pushTail(head, tail)
              q1 == pushQueue(queue, head, tail, ch)
              n == size(head, t1)
          IN /\ tail' = t1
             /\ queue' = q1
             /\ bytes_pushed' = IF full \/ build = "multi" THEN bytes_pushed
                                ELSE Int16Inc(bytes_pushed)
             /\ rc4' = IF full THEN 0 ELSE rc4
             /\ cts' = sizeCTS(n, pushCTS(head, tail))
             /\ cmd_active' = isrFlag(cmd_active, q1, head, n)
             /\ stored' = IF full THEN stored ELSE Append(stored, ch)
             /\ discards' = IF full THEN discards + 1 ELSE discards
             /\ detected' = IF ~cmd_active /\ isCommand(q1, head, n)
                            THEN (IF full THEN "dropped" ELSE "stored")
                            ELSE detected
     ELSE UNCHANGED <<tail, queue, bytes_pushed, rc4, cts, cmd_active, stored, discards,
                     detected>>
  /\ UNCHANGED <<head, bytes_popped, gie, rc3, pc, taken>>
  /\ UNCHANGED hwvars
  /\ UNCHANGED locals
  /\ UNCHANGED <<cfgvars, oplocals, mem, out, visited>>

\* The bounds of a run: a byte is received only while fewer than MaxPushed
\* bytes have been stored, or while fewer than MaxDiscards were dropped when
\* push() is going to drop it.
RxCap ==
  IF pushFull(head, tail) THEN discards < MaxDiscards
  ELSE bytes_pushed < MaxPushed

Receive == RxCap /\ (\E ch \in Chars : isr(TRUE, ch)) /\ UNCHANGED hostvars

ReceiveFail == isr(FALSE, NUL) /\ UNCHANGED hostvars

\* ------------------------------------------------------------------- pop()
\* pop(): one turn of 'while (empty())'.  While the queue is empty the red
\* LED is flashed (RC5 is 0 again when the turn ends) and the test repeats.
PopWait ==
  /\ pc = "pop_wait"
  /\ pc' = IF empty(head, tail) THEN "pop_wait" ELSE "pop_di"
  /\ UNCHANGED <<qvars, cts, gie, rc3, rc4, stored, taken, discards, detected>>
  /\ UNCHANGED hwvars
  /\ UNCHANGED locals
  /\ UNCHANGED <<cfgvars, oplocals, hostvars, mem, out, visited>>

\* A pop() that does not disable the interrupts.
PopDisableNoDI ==
  /\ pc = "pop_di"
  /\ pc' = "pop_get"
  /\ UNCHANGED <<qvars, cts, gie, rc3, rc4, stored, taken, discards, detected>>
  /\ UNCHANGED hwvars
  /\ UNCHANGED locals
  /\ UNCHANGED <<cfgvars, oplocals, hostvars, mem, out, visited>>

\* pop(): INTCONbits.GIE = 0; PIE1bits.RCIE = 0;
PopDisable ==
  /\ pc = "pop_di"
  /\ gie' = FALSE
  /\ pc' = "pop_get"
  /\ UNCHANGED <<qvars, cts, rc3, rc4, stored, taken, discards, detected>>
  /\ UNCHANGED hwvars
  /\ UNCHANGED locals
  /\ UNCHANGED <<cfgvars, oplocals, hostvars, mem, out, visited>>

\* pop(): the head after it.
popHead(h) == addone(h)

\* pop(): char c = queue[head]; head = addone(head); bytes_popped++;
PopGet ==
  /\ pc = "pop_get"
  /\ c' = queue[head]
  /\ head' = popHead(head)
  /\ bytes_popped' = IF build = "multi" THEN bytes_popped
                     ELSE Int16Inc(bytes_popped)
  /\ taken' = Append(taken, queue[head])
  /\ pc' = "pop_ei"
  /\ UNCHANGED <<queue, tail, cmd_active, bytes_pushed, cts, gie, rc3, rc4,
                 stored, discards, detected, ret, cmd, hi, addr>>
  /\ UNCHANGED hwvars
  /\ UNCHANGED <<cfgvars, oplocals, hostvars, mem, out, visited>>

\* pop(): INTCONbits.GIE = 1; PIE1bits.RCIE = 1; return c;
PopEnable ==
  /\ pc = "pop_ei"
  /\ gie' = TRUE
  /\ pc' = ret
  /\ UNCHANGED <<qvars, cts, rc3, rc4, stored, taken, discards, detected>>
  /\ UNCHANGED hwvars
  /\ UNCHANGED locals
  /\ UNCHANGED <<cfgvars, oplocals, hostvars, mem, out, visited>>

\* ------------------------------------------------------------------ main()
\* main(): 'if (cmd_active)' at the top of the loop.  With the flag set the
\* orange LED is lit and pop() is called for the '$'; otherwise the green
\* LED is lit and the loop turns after its delay.
MainPoll ==
  /\ pc = "main"
  /\ IF cmd_active
     THEN /\ rc3' = 0 /\ rc4' = 1
          /\ pc' = "pop_wait"
          /\ ret' = "main_cmd"
          /\ out' = <<>>
          /\ visited' = <<>>
     ELSE /\ rc3' = 1 /\ rc4' = 0
          /\ pc' = "main"
          /\ ret' = ret
          /\ UNCHANGED <<out, visited>>
  /\ UNCHANGED <<qvars, cts, gie, stored, taken, discards, detected, c, cmd, hi, addr>>
  /\ UNCHANGED hwvars
  /\ UNCHANGED <<cfgvars, oplocals, hostvars, mem>>

\* main(): 'char cmd = pop();', the call.
MainPopCmd ==
  /\ pc = "main_cmd"
  /\ pc' = "pop_wait"
  /\ ret' = "main_dispatch"
  /\ UNCHANGED <<qvars, cts, gie, rc3, rc4, stored, taken, discards, detected, c, cmd, hi, addr>>
  /\ UNCHANGED hwvars
  /\ UNCHANGED <<cfgvars, oplocals, hostvars, mem, out, visited>>

\* An if-chain whose last test is replaced by an else: a code it does not
\* know is taken for CMD_IDEN.
dispatchElseIden(b, k) ==
  IF k = CMD_READ THEN "rd_init"
  ELSE IF k = CMD_WRTE THEN "wr_init"
  ELSE IF k = CMD_CHEK THEN "bl_init"
  ELSE IF k = CMD_INIT THEN "init_puts"
  ELSE IF k = CMD_TYPE /\ b = "multi" THEN "ty_pop"
  ELSE "iden_puts"

\* main(): the if-chain on cmd: the position it continues at.  CMD_TYPE is
\* a command of the multi-device build only.
dispatch(b, k) ==
  IF k = CMD_READ THEN "rd_init"
  ELSE IF k = CMD_WRTE THEN "wr_init"
  ELSE IF k = CMD_CHEK THEN "bl_init"
  ELSE IF k = CMD_INIT THEN "init_puts"
  ELSE IF k = CMD_TYPE /\ b = "multi" THEN "ty_pop"
  ELSE IF k = CMD_IDEN THEN "iden_puts"
  ELSE "clear"

\* main(): cmd receives pop()'s value and the if-chain selects the operation.
MainDispatch ==
  /\ pc = "main_dispatch"
  /\ cmd' = c
  /\ pc' = dispatch(build, c)
  /\ UNCHANGED <<qvars, cts, gie, rc3, rc4, stored, taken, discards, detected, ret, c, hi, addr>>
  /\ UNCHANGED hwvars
  /\ UNCHANGED <<cfgvars, oplocals, hostvars, mem, out, visited>>

\* ---------------------------------------------------------------- do_write()
\* do_write(): LATC bits 0..2 after 'Set control bits for writing'.
writeSetup(b, t, l) ==
  IF b = "2708" THEN <<0, 0, 1>>
  ELSE IF t = DEV_2716 THEN <<1, 0, 0>>
  ELSE IF t = DEV_2732 THEN <<0, 0, 0>>
  ELSE IF t = DEV_2532 THEN <<0, 0, l[3]>>
  ELSE l

\* do_write(): LATC bits 0..2 after the statements that follow the loop.
writeDone(b, t, l) ==
  IF b = "2708" THEN <<0, 0, 1>>
  ELSE IF t = DEV_2716 THEN <<1, 1, 0>>
  ELSE IF t = DEV_2732 THEN <<1, 1, 1>>
  ELSE IF t = DEV_2532 THEN <<1, 1, l[3]>>
  ELSE l

\* write_port(): whether it issues a program pulse.
writePulses(b, t) == b = "2708" \/ t \in {DEV_2716, DEV_2732, DEV_2532}

\* write_port(): LATC bits 0..2 while the program pulse is given.
pulseOn(b, t, l) ==
  IF b = "2708" THEN [l EXCEPT ![3] = 0]
  ELSE IF t = DEV_2716 THEN [l EXCEPT ![3] = 1]
  ELSE IF t = DEV_2732 THEN [l EXCEPT ![2] = 0]
  ELSE IF t = DEV_2532 THEN [l EXCEPT ![1] = 0]
  ELSE l

\* write_port(): LATC bits 0..2 when the program pulse is over.
pulseDone(b, t, l) ==
  IF b = "2708" THEN [l EXCEPT ![3] = 1]
  ELSE IF t = DEV_2716 THEN [l EXCEPT ![3] = 0]
  ELSE IF t = DEV_2732 THEN [l EXCEPT ![2] = 1]
  ELSE IF t = DEV_2532 THEN [l EXCEPT ![1] = 1]
  ELSE l

\* The device: a program pulse stores the byte on the data bus at the
\* latched address.
program(m, a, d) == [m EXCEPT ![a] = d]

\* "OK"
STR_OK == <<79, 75>>
\* "Write aborted\n"
STR_WRITE_ABORTED == <<87, 114, 105, 116, 101, 32, 97, 98, 111, 114, 116, 101, 100, 10>>

\* do_write(): TRISD = OUTPUT; the control bits for writing; addr = 0.
WriteInit ==
  /\ pc = "wr_init"
  /\ trisd' = OUTPUT
  /\ latc' = writeSetup(build, devType, latc)
  /\ addr' = 0
  /\ pc' = "wr_loop"
  /\ UNCHANGED <<qvars, cts, gie, rc3, rc4, stored, taken, discards, detected, ret, c, cmd, hi>>
  /\ UNCHANGED <<latd, abus>>
  /\ UNCHANGED <<cfgvars, oplocals, hostvars, mem, out, visited>>

\* do_write(): the loop test, the abort check and the call of pop() for the
\* high digit.  After the last address: the control bits and TRISD as the
\* code sets them, then "OK".
WriteLoop ==
  /\ pc = "wr_loop"
  /\ IF addr < sweepLen(build, bytes)
     THEN /\ IF cmd_active = FALSE
             THEN /\ pc' = "clear" /\ ret' = ret
                  /\ out' = out \o STR_WRITE_ABORTED
             ELSE /\ pc' = "pop_wait" /\ ret' = "wr_hi"
                  /\ out' = out
          /\ UNCHANGED <<latc, trisd>>
     ELSE /\ latc' = writeDone(build, devType, latc)
          /\ trisd' = INPUT
          /\ pc' = "clear"
          /\ ret' = ret
          /\ out' = out \o STR_OK
  /\ UNCHANGED <<qvars, cts, gie, rc3, rc4, stored, taken, discards, detected, c, cmd, hi, addr>>
  /\ UNCHANGED <<latd, abus>>
  /\ UNCHANGED <<cfgvars, oplocals, hostvars, mem, visited>>

\* do_write(): hi = charToHexDigit(c); the call of pop() for the low digit.
WriteHi ==
  /\ pc = "wr_hi"
  /\ hi' = charToHexDigit(c)
  /\ pc' = "pop_wait"
  /\ ret' = "wr_lo"
  /\ UNCHANGED <<qvars, cts, gie, rc3, rc4, stored, taken, discards, detected, c, cmd, addr>>
  /\ UNCHANGED hwvars
  /\ UNCHANGED <<cfgvars, oplocals, hostvars, mem, out, visited>>

\* setup_address(): LATB = addr & 0xff; LATA = hi & 0x03 (0x0f in the
\* multi-device build).  The write of the whole of LATA clears bit 4, the
\* CTS output.
WriteAddr ==
  /\ pc = "wr_lo"
  /\ latd' = latd
  /\ abus' = setup_address(build, addr)
  /\ cts' = FALSE
  /\ pc' = "wr_port"
  /\ UNCHANGED <<qvars, gie, rc3, rc4, stored, taken, discards, detected>>
  /\ UNCHANGED <<latc, trisd>>
  /\ UNCHANGED locals
  /\ UNCHANGED <<cfgvars, oplocals, hostvars, mem, out, visited>>

\* write_port(data) with data = hi*16+lo: LATD = data.  A device type that
\* is none of the three gets no pulse: write_port() returns and addr++.
WritePort ==
  /\ pc = "wr_port"
  /\ latd' = (hi * 16 + charToHexDigit(c)) % 256
  /\ IF writePulses(build, devType)
     THEN pc' = "wr_pulse" /\ addr' = addr
     ELSE pc' = "wr_loop" /\ addr' = addr + 1
  /\ UNCHANGED <<qvars, cts, gie, rc3, rc4, stored, taken, discards, detected, ret, c, cmd, hi>>
  /\ UNCHANGED <<latc, trisd, abus>>
  /\ UNCHANGED <<cfgvars, oplocals, hostvars, mem, out, visited>>

\* write_port(): the program pulse of the device is activated.  The device
\* stores the byte on the data bus at the latched address.
WritePulseOn ==
  /\ pc = "wr_pulse"
  /\ latc' = pulseOn(build, devType, latc)
  /\ mem' = program(mem, abus, latd)
  /\ visited' = Append(visited, abus)
  /\ pc' = "wr_pulse_off"
  /\ UNCHANGED <<qvars, cts, gie, rc3, rc4, stored, taken, discards, detected>>
  /\ UNCHANGED <<trisd, latd, abus>>
  /\ UNCHANGED locals
  /\ UNCHANGED <<cfgvars, oplocals, hostvars, out>>

\* write_port(): the program pulse is deactivated; addr++.
WritePulseOff ==
  /\ pc = "wr_pulse_off"
  /\ latc' = pulseDone(build, devType, latc)
  /\ addr' = addr + 1
  /\ pc' = "wr_loop"
  /\ UNCHANGED <<qvars, cts, gie, rc3, rc4, stored, taken, discards, detected, ret, c, cmd, hi>>
  /\ UNCHANGED <<trisd, latd, abus>>
  /\ UNCHANGED <<cfgvars, oplocals, hostvars, mem, out, visited>>

\* ------------------------------------------------------------- formatting
\* printf's %x: one lower-case hex digit.
hexDigit(n) == IF n < 10 THEN 48 + n ELSE 87 + n

\* sprintf "%02x" of a uint8_t.
hex2(d) == <<hexDigit(d \div 16), hexDigit(d % 16)>>

\* sprintf "%04x" of a uint16_t.
hex4(a) ==
  <<hexDigit((a \div 4096) % 16), hexDigit((a \div 256) % 16),
    hexDigit((a \div 16) % 16), hexDigit(a % 16)>>

\* "Read aborted\n"
STR_READ_ABORTED == 
  <<82, 101, 97, 100, 32, 97, 98, 111, 114, 116, 101, 100, 10>>
\* "Check aborted\n"
STR_CHECK_ABORTED == 
  <<67, 104, 101, 99, 107, 32, 97, 98, 111, 114, 116, 101, 100, 10>>
\* "Erase check fail at address "
STR_ERASE_FAIL == 
  <<69, 114, 97, 115, 101, 32, 99, 104, 101, 99, 107, 32, 102, 97, 105, 108,
  32, 97, 116, 32, 97, 100, 100, 114, 101, 115, 115, 32>>
\* "Already init"
STR_ALREADY_INIT == <<65, 108, 114, 101, 97, 100, 121, 32, 105, 110, 105, 116>>
\* "2708", "2716", "2532", "NONE"
STR_2708 == <<50, 55, 48, 56>>
STR_2716 == <<50, 55, 49, 54>>
STR_2532 == <<50, 53, 51, 50>>
STR_NONE == <<78, 79, 78, 69>>

\* do_read(): sprintf(ads, "%04x: ", addr)
readPrefix(a) == hex4(a) \o <<58, 32>>

\* do_read(): what one turn of the loop sends for the byte d at address a
\* with the column counter k.
readEmit(a, d, k) ==
  (IF k = 0 THEN readPrefix(a) ELSE <<>>) \o hex2(d)
     \o (IF k = LINELEN - 1 THEN <<10>> ELSE <<32>>)

\* A column counter that is never set back to 0.
readColNoReset(k) == (k + 1) % 256

\* do_read(): col after one turn of the loop (uint8_t).
readCol(k) == IF k = LINELEN - 1 THEN 0 ELSE (k + 1) % 256

\* do_blank(): the failure report: "Erase check fail at address ",
\* "0x%04x = " and "0x%02x\n".
blankReport(a, d) ==
  STR_ERASE_FAIL \o <<48, 120>> \o hex4(a) \o <<32, 61, 32>>
     \o <<48, 120>> \o hex2(d) \o <<10>>

\* --------------------------------------------------------------- read_port()
\* LATC bits 0..2 after 'Set control bits for reading' of do_read() and
\* do_blank().
readSetup(b, t, l) ==
  IF b = "2708" THEN <<0, 1, 1>>
  ELSE IF t = DEV_2716 \/ t = DEV_2732 THEN <<0, l[2], 0>>
  ELSE IF t = DEV_2532 THEN <<0, l[2], l[3]>>
  ELSE l

\* LATC bits 0..2 after the statements that follow the loop of do_read()
\* and do_blank().
readDone(b, t, l) ==
  IF b = "2708" THEN <<1, l[2], l[3]>>
  ELSE IF t = DEV_2716 THEN <<1, l[2], 0>>
  ELSE IF t = DEV_2732 THEN <<1, l[2], 1>>
  ELSE IF t = DEV_2532 THEN <<1, l[2], l[3]>>
  ELSE l

\* read_port(): LATC bits 0..2 when PORTD is read.
readPortLatc(b, t, l) ==
  IF b = "2708" THEN <<0, 1, l[3]>>
  ELSE IF t = DEV_2716 \/ t = DEV_2732 THEN <<0, l[2], 0>>
  ELSE IF t = DEV_2532 THEN <<0, l[2], l[3]>>
  ELSE l

\* The device: with bit 0 of LATC low it drives the byte at the latched
\* address; otherwise its outputs are off and PORTD reads whatever the
\* floating bus holds.
portD(l, m, a) == IF l[1] = 0 THEN {m[a]} ELSE {0, ERASED}

\* ---------------------------------------------------------------- do_read()
\* do_read(): col = 0; the control bits for reading; addr = 0.
ReadInit ==
  /\ pc = "rd_init"
  /\ latc' = readSetup(build, devType, latc)
  /\ addr' = 0
  /\ col' = 0
  /\ pc' = "rd_loop"
  /\ UNCHANGED <<qvars, cts, gie, rc3, rc4, stored, taken, discards, detected,
                 ret, c, cmd, hi, trisd, latd, abus>>
  /\ UNCHANGED <<cfgvars, hostvars, mem, out, visited, data, bok>>

\* do_read(): the loop test, the abort check and setup_address(addr).  After
\* the last address: the outputs of the device are disabled.
ReadLoop ==
  /\ pc = "rd_loop"
  /\ IF addr < sweepLen(build, bytes)
     THEN IF cmd_active = FALSE
          THEN /\ out' = out \o STR_READ_ABORTED
               /\ pc' = "clear"
               /\ UNCHANGED <<abus, cts, latc>>
          ELSE /\ abus' = setup_address(build, addr)
               /\ cts' = FALSE
               /\ pc' = "rd_port"
               /\ UNCHANGED <<out, latc>>
     ELSE /\ latc' = readDone(build, devType, latc)
          /\ pc' = "clear"
          /\ UNCHANGED <<abus, cts, out>>
  /\ UNCHANGED <<qvars, gie, rc3, rc4, stored, taken, discards, detected,
                 trisd, latd>>
  /\ UNCHANGED locals
  /\ UNCHANGED <<cfgvars, oplocals, hostvars, mem, visited>>

\* do_read(): data = read_port(); the address at the start of a line, the
\* byte, the separator; ++addr.
ReadPort ==
  /\ pc = "rd_port"
  /\ trisd' = INPUT
  /\ latc' = readPortLatc(build, devType, latc)
  /\ data' \in portD(latc', mem, abus)
  /\ out' = out \o readEmit(addr, data', col)
  /\ col' = readCol(col)
  /\ visited' = Append(visited, abus)
  /\ addr' = addr + 1
  /\ pc' = "rd_loop"
  /\ UNCHANGED <<qvars, cts, gie, rc3, rc4, stored, taken, discards, detected,
                 ret, c, cmd, hi, latd, abus>>
  /\ UNCHANGED <<cfgvars, hostvars, mem, bok>>

\* --------------------------------------------------------------- do_blank()
\* The loop bound of do_blank(): 1048 in the 2708 build, bytes in the other.
blankLen(b, n) == IF b = "2708" THEN DEVSIZE + OVERSWEEP ELSE n

\* do_blank(): ok = true; the control bits for reading; addr = 0.
BlankInit ==
  /\ pc = "bl_init"
  /\ latc' = readSetup(build, devType, latc)
  /\ addr' = 0
  /\ bok' = TRUE
  /\ pc' = "bl_loop"
  /\ UNCHANGED <<qvars, cts, gie, rc3, rc4, stored, taken, discards, detected,
                 ret, c, cmd, hi, trisd, latd, abus>>
  /\ UNCHANGED <<cfgvars, hostvars, mem, out, visited, data, col>>

\* do_blank(): the loop test, the abort check and setup_address(addr).
BlankLoop ==
  /\ pc = "bl_loop"
  /\ IF addr < blankLen(build, bytes)
     THEN IF cmd_active = FALSE
          THEN /\ out' = out \o STR_CHECK_ABORTED
               /\ pc' = "clear"
               /\ UNCHANGED <<abus, cts>>
          ELSE /\ abus' = setup_address(build, addr)
               /\ cts' = FALSE
               /\ pc' = "bl_port"
               /\ out' = out
     ELSE /\ pc' = "bl_done"
          /\ UNCHANGED <<abus, cts, out>>
  /\ UNCHANGED <<qvars, gie, rc3, rc4, stored, taken, discards, detected,
                 latc, trisd, latd>>
  /\ UNCHANGED locals
  /\ UNCHANGED <<cfgvars, oplocals, hostvars, mem, visited>>

\* do_blank(): data = read_port(); a byte that is not 0xff is reported and
\* ends the loop; otherwise ++addr.
BlankPort ==
  /\ pc = "bl_port"
  /\ trisd' = INPUT
  /\ latc' = readPortLatc(build, devType, latc)
  /\ data' \in portD(latc', mem, abus)
  /\ visited' = Append(visited, abus)
  /\ IF data' # ERASED
     THEN /\ out' = out \o blankReport(addr, data')
          /\ bok' = FALSE
          /\ addr' = addr
          /\ pc' = "bl_done"
     ELSE /\ addr' = addr + 1
          /\ pc' = "bl_loop"
          /\ UNCHANGED <<out, bok>>
  /\ UNCHANGED <<qvars, cts, gie, rc3, rc4, stored, taken, discards, detected,
                 ret, c, cmd, hi, latd, abus>>
  /\ UNCHANGED <<cfgvars, hostvars, mem, col>>

\* do_blank(): the outputs of the device are disabled; "OK" if ok.
BlankDone ==
  /\ pc = "bl_done"
  /\ latc' = readDone(build, devType, latc)
  /\ out' = IF bok THEN out \o STR_OK ELSE out
  /\ pc' = "clear"
  /\ UNCHANGED <<qvars, cts, gie, rc3, rc4, stored, taken, discards, detected,
                 trisd, latd, abus>>
  /\ UNCHANGED locals
  /\ UNCHANGED <<cfgvars, oplocals, hostvars, mem, visited>>

\* ------------------------------------------------- CMD_INIT, CMD_IDEN, do_type()
\* main(): uart_puts("Already init");
InitPuts ==
  /\ pc = "init_puts"
  /\ out' = out \o STR_ALREADY_INIT
  /\ pc' = "clear"
  /\ UNCHANGED <<qvars, cts, gie, rc3, rc4, stored, taken, discards, detected>>
  /\ UNCHANGED hwvars
  /\ UNCHANGED locals
  /\ UNCHANGED <<cfgvars, oplocals, hostvars, mem, visited>>

\* main(): the string CMD_IDEN sends.
idenString(b, t) ==
  IF b = "2708" THEN STR_2708
  ELSE IF t = 0 THEN STR_2716
  ELSE IF t = 1 THEN STR_2532
  ELSE IF t = 2 THEN STR_2532
  ELSE STR_NONE

IdenPuts ==
  /\ pc = "iden_puts"
  /\ out' = out \o idenString(build, devType)
  /\ pc' = "clear"
  /\ UNCHANGED <<qvars, cts, gie, rc3, rc4, stored, taken, discards, detected>>
  /\ UNCHANGED hwvars
  /\ UNCHANGED locals
  /\ UNCHANGED <<cfgvars, oplocals, hostvars, mem, visited>>

\* do_type(): the call of pop() for the family byte.
TypePop ==
  /\ pc = "ty_pop"
  /\ pc' = "pop_wait"
  /\ ret' = "ty_set"
  /\ UNCHANGED <<qvars, cts, gie, rc3, rc4, stored, taken, discards, detected,
                 c, cmd, hi, addr>>
  /\ UNCHANGED hwvars
  /\ UNCHANGED <<cfgvars, oplocals, hostvars, mem, out, visited>>

\* (int8_t) of a char.
int8(x) == IF x >= 128 THEN x - 256 ELSE x

\* do_type(): bytes after the if-chain on devType.
typeBytes(t, old) ==
  IF t = DEV_2716 THEN SIZE_2716
  ELSE IF t = DEV_2732 THEN 2 * SIZE_2716
  ELSE IF t = DEV_2532 THEN 2 * SIZE_2716
  ELSE old

\* do_type(): RE0 and RE1 after the if-chain on devType.
typeRE(t, old) ==
  IF t = DEV_2716 THEN <<0, 0>>
  ELSE IF t = DEV_2732 THEN <<1, 0>>
  ELSE IF t = DEV_2532 THEN <<0, 1>>
  ELSE old

\* do_type(): devType = (int8_t) pop(); then the if-chain.
TypeSet ==
  /\ pc = "ty_set"
  /\ devType' = int8(c)
  /\ bytes' = typeBytes(devType', bytes)
  /\ re' = typeRE(devType', re)
  /\ pc' = "clear"
  /\ UNCHANGED <<qvars, cts, gie, rc3, rc4, stored, taken, discards, detected>>
  /\ UNCHANGED hwvars
  /\ UNCHANGED locals
  /\ UNCHANGED <<build, oplocals, hostvars, mem, out, visited>>

\* ------------------------------------------------------------------ clear()
\* clear(): memset(queue, 0x00, QUEUESIZE);
ClearMemset ==
  /\ pc = "clear"
  /\ queue' = [i \in 0..(QUEUESIZE - 1) |-> NUL]
  /\ pc' = "clear_head"
  /\ UNCHANGED <<head, tail, cmd_active, bytes_pushed, bytes_popped, cts, gie,
                 rc3, rc4, stored, taken, discards, detected>>
  /\ UNCHANGED hwvars
  /\ UNCHANGED locals
  /\ UNCHANGED <<cfgvars, oplocals, hostvars, mem, out, visited>>

\* clear(): head = 0;
ClearHead ==
  /\ pc = "clear_head"
  /\ head' = 0
  /\ pc' = "clear_tail"
  /\ UNCHANGED <<queue, tail, cmd_active, bytes_pushed, bytes_popped, cts, gie,
                 rc3, rc4, stored, taken, discards, detected>>
  /\ UNCHANGED hwvars
  /\ UNCHANGED locals
  /\ UNCHANGED <<cfgvars, oplocals, hostvars, mem, out, visited>>

\* clear(): tail = ENDQUEUE;  From here on the queue is the reset queue:
\* the histories start again.
ClearTail ==
  /\ pc = "clear_tail"
  /\ tail' = ENDQUEUE
  /\ stored' = <<>>
  /\ taken' = <<>>
  /\ pc' = "clear_flag"
  /\ UNCHANGED <<queue, head, cmd_active, bytes_pushed, bytes_popped, cts, gie,
                 rc3, rc4, discards, detected>>
  /\ UNCHANGED hwvars
  /\ UNCHANGED locals
  /\ UNCHANGED <<cfgvars, oplocals, hostvars, mem, out, visited>>

\* clear(): cmd_active = false; and back to the top of main's loop.
ClearFlag ==
  /\ pc = "clear_flag"
  /\ cmd_active' = FALSE
  /\ pc' = "main"
  /\ UNCHANGED <<queue, head, tail, bytes_pushed, bytes_popped, cts, gie,
                 rc3, rc4, stored, taken, discards, detected>>
  /\ UNCHANGED hwvars
  /\ UNCHANGED locals
  /\ UNCHANGED <<cfgvars, oplocals, hostvars, mem, out, visited>>

\* ------------------------------------------------------------ specifications
Foreground ==
  \/ PopWait \/ PopDisable \/ PopGet \/ PopEnable
  \/ MainPoll \/ MainPopCmd \/ MainDispatch
  \/ WriteInit \/ WriteLoop \/ WriteHi \/ WriteAddr \/ WritePort
  \/ WritePulseOn \/ WritePulseOff
  \/ ClearMemset \/ ClearHead \/ ClearTail \/ ClearFlag

Next == Receive \/ ReceiveFail \/ Foreground

Spec == Init /\ [][Next]_vars

\* The sender honours the flow-control output: it transmits a byte only
\* while CTS is low ('allow').
ReceiveAllowed == cts = FALSE /\ Receive

NextFC == ReceiveAllowed \/ ReceiveFail \/ Foreground

SpecFC == Init /\ [][NextFC]_vars

\* ------------------------------------------------------------------ SpecDev
\* Both builds with a device in the socket and a host that speaks the
\* protocol: it sends '$', a command code, and what the command takes (the
\* family byte of SET-TYPE, the hex digits of WRITE), each byte only while
\* CTS is low.  It is a slow host: it starts a command only when the
\* programmer is idle with nothing buffered, and it sends a digit of a
\* WRITE only when the digits before it have been taken from the queue.

\* A byte that is no command code of either build: '9'.
CMD_UNKNOWN == 57

\* The command codes the host sends.
HostCmds ==
  {CMD_READ, CMD_WRTE, CMD_CHEK, CMD_IDEN, CMD_TYPE, CMD_INIT, CMD_UNKNOWN}

\* The family bytes the host sends after '$5': the three families and 7.
HostFamilies == {DEV_2716, DEV_2732, DEV_2532, 7}

\* The digit pairs the host sends for one byte of a WRITE: "1a" and "A1".
HostPairs == {<<49, 97>>, <<65, 49>>}

\* Two bytes that are not the erased value, for the cells of a device that
\* is not blank.
DIRTY == 90
DIRTY2 == 165

\* The contents of the device when the programmer starts: blank below an
\* address k, DIRTY at k and DIRTY2 above it, for every k; k = AddrSpace is
\* the blank device.
HostMems(b) ==
  { [a \in 0..(AddrSpace(b) - 1) |->
       IF a < k THEN ERASED ELSE IF a = k THEN DIRTY ELSE DIRTY2] :
    k \in 0..AddrSpace(b) }

\* The programmer after ports_init() and the enabling of interrupts, with a
\* device in the socket.
PowerUp ==
  /\ queue = [i \in 0..(QUEUESIZE - 1) |-> NUL]
  /\ head = 0
  /\ tail = ENDQUEUE
  /\ cmd_active = FALSE
  /\ bytes_pushed = 0
  /\ bytes_popped = 0
  /\ cts = FALSE
  /\ gie = TRUE
  /\ rc3 = 0 /\ rc4 = 0
  /\ build \in {"2708", "multi"}
  /\ latc = IF build = "2708" THEN <<1, 1, 1>> ELSE <<1, 1, 0>>
  /\ trisd = INPUT
  /\ latd = 0
  /\ abus = 0
  /\ pc = "main"
  /\ ret = "main"
  /\ c = NUL
  /\ cmd = NUL
  /\ hi = 0
  /\ addr = 0
  /\ stored = <<>>
  /\ taken = <<>>
  /\ discards = 0
  /\ detected = "no"
  /\ devType = 0 /\ bytes = 0 /\ re = <<0, 0>>
  /\ mem \in HostMems(build)
  /\ out = <<>>
  /\ visited = <<>>
  /\ col = 0 /\ data = 0 /\ bok = TRUE

InitDev == PowerUp /\ hsent = <<>> /\ ncmd = 0 /\ hprev = <<>>

\* The programmer is idle and nothing is buffered.
Idle == pc = "main" /\ ~cmd_active /\ empty(head, tail)

\* The number of payload digits the host sends after '$2'.
payloadLen(b, n) == 2 * sweepLen(b, n)

\* The bytes the host may send next, given what it has sent of the running
\* command.
hostNext(h, b, n) ==
  IF h = <<>> THEN {}
  ELSE IF Len(h) = 1 THEN HostCmds
  ELSE IF h[2] = CMD_TYPE /\ b = "multi" /\ Len(h) = 2 THEN HostFamilies
  ELSE IF h[2] = CMD_WRTE /\ Len(h) < 2 + payloadLen(b, n)
       THEN IF Len(h) % 2 = 0
            THEN {p[1] : p \in HostPairs}
            ELSE {p[2] : p \in {q \in HostPairs : q[1] = h[Len(h)]}}
  ELSE {}

\* The host has sent every byte of its command.
hostDone(h, b, n) == h # <<>> /\ hostNext(h, b, n) = {}

\* The host sends one byte of the running command.
HostSend ==
  /\ cts = FALSE
  /\ pushFull(head, tail) => discards < MaxDiscards
  /\ Len(hsent) >= 2 /\ hsent[2] = CMD_WRTE => empty(head, tail)
  /\ \E ch \in hostNext(hsent, build, bytes) :
        /\ isr(TRUE, ch)
        /\ hsent' = Append(hsent, ch)
  /\ UNCHANGED <<ncmd, hprev>>

\* The host starts a command: the programmer is idle, and the sentinel is
\* sent.
HostStart ==
  /\ cts = FALSE
  /\ Idle
  /\ hsent = <<>> \/ hostDone(hsent, build, bytes)
  /\ ncmd < MaxCmds
  /\ isr(TRUE, DOLLAR)
  /\ hsent' = <<DOLLAR>>
  /\ ncmd' = ncmd + 1
  /\ hprev' = hsent

Operations ==
  \/ ReadInit \/ ReadLoop \/ ReadPort
  \/ BlankInit \/ BlankLoop \/ BlankPort \/ BlankDone
  \/ InitPuts \/ IdenPuts \/ TypePop \/ TypeSet

NextDev ==
  \/ HostStart \/ HostSend \/ ReceiveFail
  \/ Foreground \/ Operations

SpecDev == InitDev /\ [][NextDev]_vars

\* ----------------------------------------------------------------- SpecLive
\* The multi-device build after '$5' and the family byte t were its first
\* command: do_type() has run on the power-up state, clear() has reset the
\* queue and the main loop has polled once.
Configured(t) ==
  /\ queue = [i \in 0..(QUEUESIZE - 1) |-> NUL]
  /\ head = 0
  /\ tail = ENDQUEUE
  /\ cmd_active = FALSE
  /\ bytes_pushed = 0
  /\ bytes_popped = 0
  /\ cts = FALSE
  /\ gie = TRUE
  /\ rc3 = 1 /\ rc4 = 0
  /\ build = "multi"
  /\ latc = <<1, 1, 0>>
  /\ trisd = INPUT
  /\ latd = 0
  /\ abus = 0
  /\ pc = "main"
  /\ ret = "ty_set"
  /\ c = t
  /\ cmd = CMD_TYPE
  /\ hi = 0
  /\ addr = 0
  /\ stored = <<>>
  /\ taken = <<>>
  /\ discards = 0
  /\ detected = "stored"
  /\ devType = int8(t)
  /\ bytes = typeBytes(int8(t), 0)
  /\ re = typeRE(int8(t), <<0, 0>>)
  /\ mem \in HostMems(build)
  /\ out = <<>>
  /\ visited = <<>>
  /\ col = 0 /\ data = 0 /\ bok = TRUE
  /\ hsent = <<DOLLAR, CMD_TYPE, t>>

\* One command of the host, sent to the 2708 build, to the multi-device
\* build at power-up or to the multi-device build configured for a family.
InitLive ==
  /\ \/ PowerUp /\ hsent = <<>>
     \/ \E t \in HostFamilies : Configured(t)
  /\ ncmd = MaxCmds - 1
  /\ hprev = <<>>

\* The foreground is a loop that never stops: every statement that can run
\* does run.  Nothing is assumed of the host.
SpecLive == InitLive /\ [][NextDev]_vars /\ WF_vars(Foreground \/ Operations)

\* ------------------------------------------------------------------- SpecRT
\* Two commands of a host that sends as fast as the flow-control output
\* lets it: a byte whenever CTS is low, whatever the queue holds.  The
\* programmer is the 2708 build or the multi-device build configured for one
\* of its families; the device in the socket is blank or has no erased cell;
\* the host does not program a device twice.
HostSendFast ==
  /\ cts = FALSE
  /\ pushFull(head, tail) => discards < MaxDiscards
  /\ \E ch \in hostNext(hsent, build, bytes) :
        /\ (Len(hsent) = 1 /\ Len(hprev) >= 2 /\ hprev[2] = CMD_WRTE)
              => ch # CMD_WRTE
        /\ isr(TRUE, ch)
        /\ hsent' = Append(hsent, ch)
  /\ UNCHANGED <<ncmd, hprev>>

InitRT ==
  /\ \/ PowerUp /\ build = "2708" /\ hsent = <<>>
     \/ \E t \in {DEV_2716, DEV_2732, DEV_2532} : Configured(t)
  /\ ncmd = MaxCmds - 2
  /\ hprev = <<>>
  /\ mem[0] # ERASED \/ mem[AddrSpace(build) - 1] = ERASED

NextRT ==
  \/ HostStart \/ HostSendFast \/ ReceiveFail
  \/ Foreground \/ Operations

SpecRT == InitRT /\ [][NextRT]_vars

\* ------------------------------------------------------------- properties
\* The number of bytes stored by push() and not yet returned by pop() since
\* the last reset.
Count == Len(stored) - Len(taken)

\* clear() has reset head and not yet tail: the two cursors belong to
\* different queues until 'tail = ENDQUEUE' has run.
HalfReset == pc = "clear_tail"

\* A handler invocation whose uart_getc() delivered a byte.
IsrReceived == \E ch \in Chars : isr(TRUE, ch)

\* A handler invocation whose uart_getc() failed.
IsrFailed == isr(FALSE, NUL)

\* C1: FIFO delivery.  Between two resets the k-th byte returned by pop()
\* is the k-th byte push() stored: the bytes popped so far are a prefix of
\* the bytes stored so far.
C1_FifoDelivery ==
  /\ Len(taken) <= Len(stored)
  /\ \A k \in 1..Len(taken) : taken[k] = stored[k]

\* C1 witness: more bytes than the queue has slots have been popped since
\* the reset, so both cursors have wrapped around the end of the buffer.
C1_Witness == Len(taken) > QUEUESIZE /\ tail < head

\* C2 (as claimed): with a sender that transmits only while CTS is low,
\* push() never takes its queue-full branch.
C2_NoOverflow == discards = 0

\* C3 (as claimed): after a handler invocation that received a byte (push()
\* followed by size()), CTS is asserted if the number of buffered bytes is
\* above HIWATER and cleared if it is below LOWATER.
C3_Watermarks ==
  [][ (IsrReceived /\ ~HalfReset)
        => /\ (Count' > HIWATER => cts' = TRUE)
           /\ (Count' < LOWATER => cts' = FALSE) ]_vars

\* C4 (as claimed): a handler invocation during which the number of buffered
\* bytes stays between LOWATER and HIWATER leaves CTS as it was.
C4_Hysteresis ==
  [][ (IsrReceived /\ ~HalfReset /\ Count >= LOWATER /\ Count' <= HIWATER)
        => cts' = cts ]_vars

\* C5 (as claimed): size() returns the number of buffered bytes, which is
\* (tail + 1 - head) mod QUEUESIZE and lies in 0..QUEUESIZE-1.
C5_SizeIsCount ==
  ~HalfReset =>
    /\ size(head, tail) = Count
    /\ size(head, tail) = (tail + 1 - head) % QUEUESIZE
    /\ size(head, tail) \in 0..(QUEUESIZE - 1)

\* C6: a dropped push changes nothing in the queue.  A handler invocation
\* that receives a byte while addone(addone(tail)) = head leaves head, tail
\* and the storage unchanged, size() and empty() return what they returned
\* before, and the bytes buffered (and so the order they are popped in) are
\* the same.
C6_DroppedPushFrame ==
  [][ (IsrReceived /\ addone(addone(tail)) = head)
        => /\ head' = head /\ tail' = tail /\ queue' = queue
           /\ size(head', tail') = size(head, tail)
           /\ empty(head', tail') = empty(head, tail)
           /\ stored' = stored /\ taken' = taken
           /\ bytes_pushed' = bytes_pushed ]_vars

\* C6 witness: a push has taken the queue-full branch.
C6_Witness == discards > 0 /\ addone(addone(tail)) = head

C8_Original == (Len(taken) = 0 /\ ~HalfReset) => Count <= QUEUESIZE - 2

\* C8 (amended): with no pop since the reset, a received byte is stored when
\* fewer than QUEUESIZE-1 bytes are pending and dropped when QUEUESIZE-1
\* are; the pending count never exceeds QUEUESIZE-1 and the cursors agree
\* with it afterwards.
C8_DropBeyondCapacity ==
  [][ (IsrReceived /\ Len(taken) = 0 /\ ~HalfReset)
        => /\ Len(stored') = IF Len(stored) < QUEUESIZE - 1
                             THEN Len(stored) + 1 ELSE Len(stored)
           /\ Len(stored') <= QUEUESIZE - 1
           /\ Len(stored') = (tail' + 1 - head') % QUEUESIZE
           /\ empty(head', tail') <=> Len(stored') = 0 ]_vars

\* C8 witness: no pop since the reset, QUEUESIZE-1 bytes pending and a
\* further byte dropped.
C8_Witness == Len(taken) = 0 /\ Len(stored) = QUEUESIZE - 1 /\ discards > 0

\* C9 (as claimed): whenever empty() returns true, bytes_pushed equals
\* bytes_popped.
C9_CounterAgreement ==
  (empty(head, tail) /\ ~HalfReset) => bytes_pushed = bytes_popped

knownCodes(b) ==
  {CMD_READ, CMD_WRTE, CMD_CHEK, CMD_IDEN, CMD_INIT}
     \cup (IF b = "multi" THEN {CMD_TYPE} ELSE {})

\* The positions of clear().
ClearLabels == {"clear", "clear_head", "clear_tail", "clear_flag"}

\* The positions of pop().
PopLabels == {"pop_wait", "pop_di", "pop_get", "pop_ei"}

\* The positions inside the operation handlers.
HandlerLabels ==
  {"rd_init", "rd_loop", "rd_port", "bl_init", "bl_loop", "bl_port",
   "bl_done", "wr_init", "wr_loop", "wr_hi", "wr_lo", "wr_port",
   "wr_pulse", "wr_pulse_off",
   "init_puts", "iden_puts", "ty_pop", "ty_set"}

\* The state the spec calls Idle: the main loop polls and the flag is false.
IdleState == pc = "main" /\ ~cmd_active

\* The control lines, the data port, the address latch and the device
\* configuration.
hwcfg == <<latc, trisd, latd, abus, re, devType, bytes, mem>>

\* The reset that ends the episode of a command code main() does not know.
UnknownEpisode == pc \in ClearLabels /\ cmd \notin knownCodes(build)

\* C11: a command code that is none of the codes of the build is ignored:
\* the dispatcher goes straight to the reset, no handler position is
\* entered, nothing has been sent and nothing is sent, no control line, port
\* direction, address latch, device cell or configuration value changes,
\* and the reset runs its four statements and ends in Idle.
C11_UnknownIgnored ==
  [][ /\ (pc = "main_dispatch" /\ pc' # pc /\ c \notin knownCodes(build))
           => /\ pc' = "clear"
              /\ out = <<>> /\ visited = <<>>
              /\ UNCHANGED <<out, visited, hwcfg>>
      /\ UnknownEpisode
           => /\ UNCHANGED <<out, visited, hwcfg>>
              /\ out = <<>>
              /\ \/ pc' = pc
                 \/ pc = "clear" /\ pc' = "clear_head"
                       /\ queue' = [i \in 0..(QUEUESIZE - 1) |-> NUL]
                 \/ pc = "clear_head" /\ pc' = "clear_tail" /\ head' = 0
                 \/ pc = "clear_tail" /\ pc' = "clear_flag" /\ tail' = ENDQUEUE
                 \/ pc = "clear_flag" /\ IdleState' ]_vars

\* C11 witness: the 2708 build has been sent '$5', which is a command of
\* the other build only, and is back in Idle with nothing sent.
C11_Witness ==
  /\ build = "2708" /\ hsent = <<DOLLAR, CMD_TYPE>> /\ cmd = CMD_TYPE
  /\ IdleState /\ out = <<>> /\ head = 0 /\ tail = ENDQUEUE

\* The operation handler a foreground position belongs to; a position of
\* pop() belongs to the handler pop() returns to.
handlerOf(p, r) ==
  LET l == IF p \in PopLabels THEN r ELSE p
  IN IF l \in {"rd_init", "rd_loop", "rd_port"} THEN "read"
     ELSE IF l \in {"bl_init", "bl_loop", "bl_port", "bl_done"} THEN "blank"
     ELSE IF l \in {"wr_init", "wr_loop", "wr_hi", "wr_lo", "wr_port",
                     "wr_pulse", "wr_pulse_off"} THEN "write"
     ELSE IF l = "init_puts" THEN "init"
     ELSE IF l = "iden_puts" THEN "iden"
     ELSE IF l \in {"ty_pop", "ty_set"} THEN "type"
     ELSE "none"

\* The order of an episode: the main loop leaves its poll only with the
\* flag set, and for pop(); a handler is entered only from the dispatch and
\* is left only for clear(); the dispatch continues in a handler or in
\* clear(); clear() is left only by its last statement, for the top of the
\* main loop, with the flag false and the queue as it is at power-up.
EpisodeOrder ==
  /\ (pc = "main" /\ pc' # pc)
        => cmd_active /\ pc' = "pop_wait" /\ ret' = "main_cmd"
  /\ (handlerOf(pc, ret) = "none" /\ handlerOf(pc', ret') # "none")
        => pc = "main_dispatch"
  /\ (handlerOf(pc, ret) # "none" /\ handlerOf(pc', ret') # handlerOf(pc, ret))
        => pc' = "clear"
  /\ (pc = "main_dispatch" /\ pc' # pc)
        => pc' = "clear" \/ handlerOf(pc', ret') # "none"
  /\ (pc \in ClearLabels /\ pc' \notin ClearLabels)
        => /\ pc = "clear_flag" /\ pc' = "main"
           /\ head' = 0 /\ tail' = ENDQUEUE
           /\ queue' = [i \in 0..(QUEUESIZE - 1) |-> NUL]
           /\ ~cmd_active'

\* The host has nothing more to send for the command that is executing.
Served == cmd_active /\ hostDone(hsent, build, bytes)

\* C12: return to Idle.  An episode runs at most one handler and then
\* clear(), which (the host sends nothing during it) leaves head = 0,
\* tail = QUEUESIZE-1, the storage zero and the flag false; and an episode
\* whose command takes no further byte from the host (READ, BLANK-CHECK,
\* IDENTIFY, INIT, an unknown code, and WRITE or SET-TYPE once everything
\* they take has been received) ends in Idle.
C12_ReturnToIdle == [][EpisodeOrder]_vars /\ (Served ~> IdleState)

\* C12 witness: a WRITE of the 2708 build has programmed its last byte,
\* every digit has arrived, and the handler is about to return.
C12_Witness ==
  /\ build = "2708" /\ pc = "wr_loop" /\ addr = DEVSIZE
  /\ Served /\ Len(hsent) = 2 + 2 * DEVSIZE

\* The value of a hex digit, upper or lower case.
hexValue(ch) ==
  IF ch \in 48..57 THEN ch - 48
  ELSE IF ch \in 65..70 THEN ch - 55
  ELSE IF ch \in 97..102 THEN ch - 87
  ELSE -1

\* The number of addresses of the device the programmer is configured for.
deviceSize(b, t) == IF b = "2708" THEN DEVSIZE ELSE typeBytes(t, 0)

\* The programmer is the 2708 build, or the multi-device build configured
\* for one of its families by SET-TYPE.
Coherent ==
  \/ build = "2708"
  \/ devType \in {DEV_2716, DEV_2732, DEV_2532} /\ bytes = typeBytes(devType, 0)

\* h is '$', '2' and the two digits of every byte of the device.
completeWrite(h) ==
  /\ Len(h) = 2 + 2 * deviceSize(build, devType)
  /\ h[1] = DOLLAR /\ h[2] = CMD_WRTE

\* The byte the payload of h holds for address a: high digit first.
payloadByte(h, a) == 16 * hexValue(h[2 * a + 3]) + hexValue(h[2 * a + 4])

\* The dump of the bytes B[a], ..., B[n-1]: the line of an address starts
\* with the address when the address is a multiple of LINELEN.
RECURSIVE dumpOf(_, _, _)
dumpOf(B, a, n) ==
  IF a >= n THEN <<>>
  ELSE readEmit(a, B[a], a % LINELEN) \o dumpOf(B, a + 1, n)

linesAtRest(b, t, l) ==
  IF b = "2708" THEN l = <<1, 1, 1>>
  ELSE IF t = DEV_2716 THEN l = <<1, 1, 0>>
  ELSE IF t = DEV_2732 THEN l = <<1, 1, 1>>
  ELSE IF t = DEV_2532 THEN l[1] = 1 /\ l[2] = 1
  ELSE l[2] = 1

\* do_write() has sent "OK" and returned.
WriteCompleted == cmd = CMD_WRTE /\ pc \in ClearLabels /\ out = STR_OK

\* C14: when WRITE has completed and sent "OK", the write-enable line, the
\* program-pulse line and the chip-enable line are deasserted, as after
\* power-up, and the data port is an input.
C14_WriteRestores ==
  WriteCompleted => (linesAtRest(build, devType, latc) /\ trisd = INPUT)

\* do_blank() has returned.
BlankReturned == cmd = CMD_CHEK /\ pc \in ClearLabels

\* The addresses 0, 1, ..., k-1 in ascending order.
ascending(k) == [i \in 1..k |-> i - 1]

\* C15: BLANK-CHECK first-mismatch policy.  When do_blank() has returned,
\* the addresses it sampled are 0, 1, 2, ... in ascending order, each once;
\* it has sent either "OK" or one failure report, never both; a failure
\* report carries the last address sampled and the byte read there, which
\* is not 0xff, and every address before it read 0xff; "OK" is sent only if
\* every address of the configured device was sampled and holds 0xff.
C15_FirstMismatch ==
  BlankReturned =>
    LET n == deviceSize(build, devType)
        k == Len(visited)
    IN /\ visited = ascending(k)
       /\ \/ /\ out = STR_OK
             /\ k >= n
             /\ \A a \in 0..(n - 1) : mem[a] = ERASED
          \/ /\ k >= 1
             /\ out = blankReport(k - 1, data)
             /\ data # ERASED
             /\ \A a \in 0..(k - 2) : mem[a] = ERASED

\* The family bytes do_type() knows.
Families == {DEV_2716, DEV_2732, DEV_2532}

\* C16: a SET-TYPE whose family byte is none of the three families changes
\* nothing: the step of do_type() that takes such a byte leaves the device
\* type, the sweep length and the wiring-select outputs RE0/RE1 as they
\* were.
C16_UnknownFamilyNoChange ==
  [][ (pc = "ty_set" /\ pc' # pc /\ c \notin Families)
         => UNCHANGED <<devType, bytes, re>> ]_vars

\* "2732": the name of the family DEV_2732.
NAME_2732 == <<50, 55, 51, 50>>

\* The name of the configured device family.
familyName(b, t) ==
  IF b = "2708" THEN STR_2708
  ELSE IF t = DEV_2716 THEN STR_2716
  ELSE IF t = DEV_2732 THEN NAME_2732
  ELSE STR_2532

\* C17: IDENTIFY sends the name of the configured device family: "2708" in
\* the 2708 build, "2716", "2732" or "2532" in the multi-device build, so
\* that different families give different answers.
C17_IdentifyNames ==
  (cmd = CMD_IDEN /\ pc \in ClearLabels
     /\ (build = "2708" \/ devType \in Families))
    => out = familyName(build, devType)

\* do_read() has returned.
ReadReturned == cmd = CMD_READ /\ pc \in ClearLabels

\* The layout of a dump: a line is an address prefix of six characters
\* ("hhhh: ") and LINELEN groups of three (two digits and a separator).
\* dumpLines(n) is the number of lines n bytes take, dumpLen(n) the number
\* of characters, dumpPos(a) the number of characters before the first
\* digit of the byte at address a.
dumpLines(n) == (n + LINELEN - 1) \div LINELEN

dumpLen(n) == 3 * n + 6 * dumpLines(n)

dumpPos(a) == (a \div LINELEN) * (6 + 3 * LINELEN) + 6 + 3 * (a % LINELEN)

\* The characters i+1 .. i+k of a sequence.
slice(q, i, k) == [j \in 1..k |-> q[i + j]]

C19_SweepBound ==
  LET n == sweepLen(build, bytes)
  IN /\ ReadReturned => (visited = ascending(n) /\ addr = n)
     /\ (BlankReturned /\ out = STR_OK) => (visited = ascending(n) /\ addr = n)

\* pop() is between its interrupt-disable and its interrupt-enable.
InCritical == pc \in {"pop_get", "pop_ei"}

\* C20: pop()'s critical section.  Interrupts are disabled exactly while
\* pop() is between its disable and its enable, so they are enabled again
\* when it returns; no step taken there is a step of the handler: the tail,
\* the storage, the flag and the flow-control output do not change, and the
\* one step that reads queue[head] also advances head; and the queue that
\* was found not empty before the disable is still not empty when the byte
\* is read.
C20_PopCritical ==
  /\ [](InCritical <=> ~gie)
  /\ []((pc \in {"pop_di", "pop_get"}) => ~empty(head, tail))
  /\ [][ /\ InCritical => UNCHANGED <<tail, queue, cmd_active, cts, stored, discards>>
         /\ (head' # head /\ pc # "clear_head")
              => /\ pc = "pop_get" /\ ~gie
                 /\ c' = queue[head] /\ head' = addone(head)
                 /\ taken' = Append(taken, queue[head]) ]_vars

\* C20 witness: pop() is inside its critical section for a byte that is not
\* the first one, while more bytes are buffered behind it and the queue has
\* wrapped.
C20_Witness ==
  /\ pc = "pop_get" /\ ~gie /\ Len(taken) >= 2
  /\ Count >= 2 /\ tail < head

\* write_port(): the program-pulse line of the device is at its active
\* level: PRG_ low (2708), PD/PGM high (2716), the line on RC1 low (2732),
\* PD/PGM_ low (2532).
pulseAsserted(b, t, l) ==
  IF b = "2708" THEN l[3] = 0
  ELSE IF t = DEV_2716 THEN l[3] = 1
  ELSE IF t = DEV_2732 THEN l[2] = 0
  ELSE IF t = DEV_2532 THEN l[1] = 0
  ELSE FALSE

\* do_write() is running (pop() called by it included).
InWrite == handlerOf(pc, ret) = "write"

\* The position of do_write(): that of the statement pop() returns to while
\* pop() runs.
writeAt == IF pc \in PopLabels THEN ret ELSE pc

\* The state of do_write() at each of its positions, for the address addr:
\* the payload characters popped, the address programmed so far, the
\* latches and the pulse line.
WriteProtocolState ==
  InWrite =>
    LET n == deviceSize(build, devType)
        popped == Len(taken) - 2
    IN /\ writeAt = "wr_init" => popped = 0
       /\ writeAt # "wr_init" =>
            /\ addr <= n
            /\ visited = ascending(IF pc = "wr_pulse_off" THEN addr + 1 ELSE addr)
            /\ pulseAsserted(build, devType, latc) <=> pc = "wr_pulse_off"
       /\ pc = "wr_loop" => popped = 2 * addr
       /\ writeAt = "wr_hi" =>
            popped = 2 * addr + (IF pc \in {"wr_hi", "pop_ei"} THEN 1 ELSE 0)
       /\ (writeAt = "wr_lo" /\ pc # "wr_lo") =>
            popped = 2 * addr + 1 + (IF pc = "pop_ei" THEN 1 ELSE 0)
       /\ pc \in {"wr_lo", "wr_port", "wr_pulse", "wr_pulse_off"} =>
            /\ popped = 2 * addr + 2
            /\ addr < n
       /\ pc \in {"wr_port", "wr_pulse", "wr_pulse_off"} => abus = addr
       /\ pc \in {"wr_pulse", "wr_pulse_off"} =>
            latd = 16 * hexValue(taken[2 * addr + 3]) + hexValue(taken[2 * addr + 4])
       /\ pc = "wr_pulse_off" => mem[addr] = latd

\* do_write() has sent "OK" and returned: every payload character has been
\* popped and every address was programmed.
WriteOkAfterAll ==
  (cmd = CMD_WRTE /\ pc = "clear" /\ out = STR_OK)
     => /\ Len(taken) = 2 + 2 * deviceSize(build, devType)
        /\ visited = ascending(deviceSize(build, devType))

\* The steps of do_write(): no latch changes while the pulse line is
\* active, a cell is programmed only by the pulse and at the latched
\* address, and nothing is sent but "OK" after the last address.
WriteProtocolStep ==
  InWrite =>
    /\ (abus' # abus \/ latd' # latd)
         => /\ ~pulseAsserted(build, devType, latc)
            /\ ~pulseAsserted(build, devType, latc')
    /\ (mem' # mem \/ visited' # visited)
         => /\ pc = "wr_pulse" /\ abus = addr
            /\ mem' = [mem EXCEPT ![addr] = latd]
            /\ visited' = Append(visited, addr)
    /\ out' # out
         => /\ pc = "wr_loop" /\ out' = STR_OK
            /\ Len(taken) = 2 + 2 * deviceSize(build, devType)

\* C21: WRITE per-address protocol.  For each address in ascending order
\* do_write() pops two payload characters, latches the address, drives the
\* byte the two characters encode, gives the program pulse and ends it
\* before the next address is latched; the pulse line is at its active
\* level in no step that changes the address latch or the data latch; every
\* address gets one pulse; "OK" is sent only when 2 x deviceSize payload
\* characters have been popped and every address was programmed, and while
\* pop() waits nothing is programmed.
C21_WriteProtocol ==
  /\ []WriteProtocolState
  /\ []WriteOkAfterAll
  /\ [][WriteProtocolStep]_vars

\* C22: the flow-control output is written only by the handler, whose
\* push() and size() recompute the occupancy: a step that changes it is an
\* invocation that received a byte, and every foreground step,
\* setup_address() included, leaves it as it was.
C22_CtsOnlyByOccupancy ==
  [][ (cts' # cts) => IsrReceived ]_vars

\* The sequence q ends with the sequence t.
endsWith(q, t) ==
  Len(q) >= Len(t) /\ SubSeq(q, Len(q) - Len(t) + 1, Len(q)) = t

\* An operation has sent its 'aborted' notice.
AbortNotice ==
  \E t \in {STR_READ_ABORTED, STR_WRITE_ABORTED, STR_CHECK_ABORTED} :
     endsWith(out, t)

\* The positions of the per-address checks of do_read(), do_write() and
\* do_blank().
CheckLabels == {"rd_loop", "wr_loop", "bl_loop"}

\* C23: the abort checks are unreachable from the protocol.  cmd_active is
\* true from the poll that takes a command up to the last statement of the
\* reset that ends it, so it is true at every per-address check of READ,
\* WRITE and BLANK-CHECK; it turns false only in the last statement of
\* clear(), which main() runs after the handler has returned; and no
\* 'aborted' notice is ever sent.
C23_AbortUnreachable ==
  /\ [](pc # "main" => cmd_active)
  /\ [](pc \in CheckLabels => cmd_active)
  /\ [](~AbortNotice)
  /\ [][ (cmd_active /\ ~cmd_active')
           => pc = "clear_flag" /\ handlerOf(pc, ret) = "none" ]_vars

\* C23 witness: the multi-device build, configured for a 2732, is at the
\* check of the last address of a BLANK-CHECK, every address before it
\* sampled.
C23_Witness ==
  /\ build = "multi" /\ devType = DEV_2732 /\ pc = "bl_loop"
  /\ addr = 2 * SIZE_2716 - 1 /\ visited = ascending(addr) /\ cmd_active

\* --------------------------------------------------------------- SpecCancel
\* The abort checks of do_read(), do_write() and do_blank() test a flag that
\* no statement of the program clears while an operation runs.  Cancel is
\* the event they are written for: something outside the program (a
\* debugger, a stray write) makes cmd_active false while one of the three
\* operations runs.
Cancel ==
  /\ cmd_active
  /\ handlerOf(pc, ret) \in {"read", "write", "blank"}
  /\ cmd_active' = FALSE
  /\ UNCHANGED <<queue, head, tail, bytes_pushed, bytes_popped, cts, gie,
                 rc3, rc4, pc, stored, taken, discards, detected>>
  /\ UNCHANGED hwvars
  /\ UNCHANGED locals
  /\ UNCHANGED <<cfgvars, oplocals, hostvars, mem, out, visited>>

NextCancel == NextDev \/ Cancel

\* One command of the host, as in SpecLive, with the flag cleared from
\* outside at any time during a READ, a WRITE or a BLANK-CHECK.
SpecCancel == InitLive /\ [][NextCancel]_vars

\* An operation has sent its 'aborted' notice and returned.
Aborted == AbortNotice /\ pc \in ClearLabels

\* An operation is at a per-address check with an address left to do.
AtCheck ==
  /\ pc \in CheckLabels
  /\ addr < (IF pc = "bl_loop" THEN blankLen(build, bytes)
             ELSE sweepLen(build, bytes))

\* C24: cancellation leaves the hardware safe.  An operation that finds
\* cmd_active false at a per-address check sends its notice and returns at
\* once, latching and sampling no further address; and when it has
\* returned, chip-enable, write-enable and the program pulse are
\* deasserted and the data port is an input.
C24_CancelSafe ==
  /\ [](Aborted => (linesAtRest(build, devType, latc) /\ trisd = INPUT))
  /\ [][ /\ (AtCheck /\ pc' # pc /\ ~cmd_active)
              => /\ Aborted' /\ pc' = "clear"
                 /\ UNCHANGED <<abus, latd, mem, visited, addr>>
         /\ Aborted => UNCHANGED <<abus, latd, mem, visited, out>> ]_vars

\* pop() runs for main(): for the '$' or for the command code.
TokenPop == pc \in PopLabels /\ ret \in {"main_cmd", "main_dispatch"}

\* C25: token pops never block.  Whenever the main loop finds cmd_active
\* true at its poll, at least two bytes are buffered and the byte at the
\* head is '$'; the two calls of pop() that follow find the queue not empty
\* at their test; the first returns the '$' and the second the byte that
\* was stored after it.
C25_TokenPopsNeverBlock ==
  /\ (pc = "main" /\ cmd_active)
        => /\ Count >= 2 /\ size(head, tail) >= 2
           /\ queue[head] = DOLLAR /\ queue[addone(head)] = stored[2]
           /\ taken = <<>> /\ stored[1] = DOLLAR
  /\ (TokenPop /\ pc # "pop_ei") => ~empty(head, tail)
  /\ (pc = "main_cmd" \/ (TokenPop /\ ret = "main_dispatch" /\ pc # "pop_ei"))
        => c = DOLLAR /\ taken = <<DOLLAR>>
  /\ pc = "main_dispatch"
        => c = stored[2] /\ taken = <<DOLLAR, stored[2]>>

\* C25 witness: a second command is about to be dispatched, its two token
\* bytes popped, after bytes that the handler stored were wiped by the
\* reset in between.
C25_Witness ==
  /\ pc = "main_dispatch" /\ bytes_popped >= 4
  /\ bytes_pushed - bytes_popped > Count

\* ----------------------------------------------------------------- SpecFair
\* The program of Spec with a foreground that never stops: main() is a loop
\* without an exit, so every statement that can run does run.  Nothing is
\* assumed of the sender.
SpecFair == Init /\ [][Next]_vars /\ WF_vars(Foreground)

\* The handler has stored a complete token that is still buffered: the
\* k-th byte stored since the reset is '$', a byte that is not '$' follows
\* it, and the byte before it, if any, is not a '$' whose command code it
\* would be.
TokenAt(k) ==
  /\ ~HalfReset /\ pc \notin ClearLabels
  /\ Len(stored) > k /\ Len(taken) < k
  /\ stored[k] = DOLLAR /\ stored[k + 1] # DOLLAR
  /\ k > 1 => stored[k - 1] # DOLLAR

\* main() has popped the two bytes of the token stored as k-th and k+1-st
\* byte and selects the operation.
TokenDispatched(k) ==
  pc = "main_dispatch" /\ Len(taken) = k + 1 /\ c = stored[k + 1]

\* C26: command liveness.  Every complete token the handler has received
\* is eventually popped and dispatched by main(), whether it is the first
\* thing received since the reset or follows a byte that is no sentinel,
\* and whether main() is idle or executing when it arrives.
C26_CommandLiveness ==
  \A k \in {1, 2} : TokenAt(k) ~> TokenDispatched(k)

\* A complete token is at the head of the queue.
TokenAtHead == Count >= 2 /\ queue[head] = DOLLAR

\* C27: flag/queue agreement across reset.  Whenever main() is at the top
\* of its loop (the handler runs to completion, so it is not running in any
\* state), cmd_active is true if and only if at least two bytes are
\* buffered with '$' at the head.
C27_FlagQueueAgreement ==
  pc = "main" => (cmd_active <=> TokenAtHead)

\* C28: device configuration consistency of the multi-device build.  In
\* every state, the power-up state included, devType is one of the three
\* families, the sweep length bytes is the number of addresses of that
\* family and the wiring-select outputs RE0/RE1 are those of that family.
C28_ConfigConsistent ==
  build = "multi" =>
    /\ devType \in Families
    /\ bytes = typeBytes(devType, bytes + 1)
    /\ re = typeRE(devType, <<1, 1>>)

====
